---- MODULE Spec2Model ----
(***************************************************************************)
(* Turn-gated streaming controller of modochats/voice-client.              *)
(*                                                                         *)
(* The repository holds three revisions of AudioService:                   *)
(*   "service"  src/src/services/audio/service.ts : playback inside the    *)
(*              service, resume by timers, playback completion resumes     *)
(*   "part_003" src/unnamed/part_003 + input-processor.ts : playback in    *)
(*              AudioInputProcessor, resume by timers                      *)
(*   "part_004" src/unnamed/part_004 + input-processor.ts : playback in    *)
(*              AudioInputProcessor, micPaused flag, gated send            *)
(* The variable rev is the revision a behaviour runs; it never changes.    *)
(***************************************************************************)
EXTENDS Integers, Sequences, FiniteSets, TLC

\* ------------------------------------------------------------------ bounds
MaxChunks == 3      \* chunks received
MaxCaptured == 2    \* encoded chunks the capture pipeline produces
MaxRequests == 3    \* turn-changes to user
MaxPauses == 2      \* turn-changes to ai
MaxTime == 4        \* clock ticks
MaxConnects == 3    \* connect() calls, where the client is the subject
MaxDisconnects == 2 \* disconnect() calls, where the client is the subject
MaxSessions == 1    \* connect() calls, where one session's audio is the subject
MaxFaults == 6      \* disconnected and connection_error events
MaxProbes == 2      \* heartbeat probes
MaxUpdates == 2     \* updateConfig() calls

NULL == "null"    \* null, for the fields that hold names
NoId == 0         \* null, for the fields that hold numbered objects
NoTimer == <<>>   \* null, for the fields that hold timer handles

Revisions == {"service", "part_003", "part_004"}

\* The audio configuration the client may be constructed with: the
\* end-to-end scenario of the specification, and one whose chunk-count
\* threshold is within reach. resumeDelay and failsafeResumeTimeout are in
\* clock ticks.
Configs ==
  { [minBufferSize |-> 40000, targetChunks |-> 20,
     resumeDelay |-> 2, failsafeResumeTimeout |-> 3],
    [minBufferSize |-> 40000, targetChunks |-> 3,
     resumeDelay |-> 2, failsafeResumeTimeout |-> 4] }

ChunkSizes == {10000, 20000}

\* DEFAULT_CONFIG.websocket; the multiplier 1.5 is the fraction 3/2
DefaultWsConfig ==
  [reconnect |-> FALSE, maxReconnectAttempts |-> 5, reconnectDelay |-> 1000,
   reconnectBackoffMultiplier |-> [num |-> 3, den |-> 2],
   maxReconnectDelay |-> 30000]

\* DEFAULT_CONFIG.audio, the fields of Configs
DefaultAudioConfig ==
  [minBufferSize |-> 32000, targetChunks |-> 16,
   resumeDelay |-> 150, failsafeResumeTimeout |-> 10000]

\* Partial<ModoVoiceConfig>: the arguments updateConfig() is called with
Updates ==
  { [audio |-> [targetChunks |-> 5]],
    [audio |-> [minBufferSize |-> 20000, resumeDelay |-> 100]],
    [websocket |-> [reconnect |-> TRUE, maxReconnectAttempts |-> 2]] }

\* The websocket configurations with reconnection switched on: the defaults,
\* and one whose maximum delay and attempts are within reach.
ReconnectConfigs ==
  { [DefaultWsConfig EXCEPT !.reconnect = TRUE],
    [DefaultWsConfig EXCEPT !.reconnect = TRUE, !.maxReconnectAttempts = 3,
                            !.maxReconnectDelay = 2000] }

VARIABLES
  rev,                  \* revision of AudioService in the build
  config,               \* AudioConfig given at construction
  wsConfig,             \* WebSocketConnectionConfig given at construction
  \* ---- playback buffer (AudioInputProcessor / AudioState + AudioService)
  playbackState,        \* AudioPlaybackState
  audioBuffer,          \* pending chunks, in push order
  audioBufferSize,      \* running byte count
  isStreamingComplete,
  playbackRetryTimer,   \* NULL | "pending" | "cleared" (handle kept, timer cancelled)
  retryTimers,          \* number of retry callbacks setTimeout still holds
  currentAudioElement,  \* NoId | index into sinkLog
  \* ---- playback sink and chunk source (environment)
  sinkLog,              \* every segment handed to the sink, in hand-over order:
                        \* [combined, from, complete]
  inSink,               \* indexes of sinkLog still playing
  received,             \* number of chunks received so far
  \* ---- microphone gate (AudioService)
  micPaused,            \* part_004 only
  micResumeTimeout,     \* NoTimer | handle <<kind, request>> of a timer
  timers,               \* pending setTimeout timers of resumeMicrophone
  now,                  \* clock, in ticks
  \* ---- history of the gate
  reqAt,                \* time of every resumeMicrophone call, in call order
  pauseLog,             \* every pauseMicrophone call, in call order: [seen]
  resumeLog,            \* every execution of a resume: [req, kind, at, seen];
                        \* seen is the number of resumeMicrophone calls so far
  \* ---- connection session (WebSocketService, ConnectionState)
  connectionState,
  metrics,              \* ConnectionMetrics
  emitted,              \* number of connection events emitted, by type
  session,              \* timers and errors of the connection session:
                        \* [reconnectTimer, reconnecting, connectionTimeout,
                        \*  heartbeat, probes, reason, exhausted, backoffLog,
                        \*  notConnected]
  \* ---- client (ModoVoiceClient) and audio resources (AudioService)
  initialized,
  mediaStream,          \* NoId | id of the stream held
  liveStreams,          \* streams whose tracks are not stopped
  audioContext,         \* NoId | id of the context held
  openContexts,         \* contexts not closed
  collector,            \* [stream, context] the collector was started on
  connectCalls,         \* connect() calls in flight, counted by suspension
                        \* point, and connect() calls that rejected
  cleanups,             \* cleanup() calls awaiting audioContext.close()
  connectsStarted,      \* connect() calls that went past the guard
  \* ---- capture pipeline
  captured,             \* encoded chunks produced so far
  sendLog,              \* chunks handed to the connection: [id, paused]
  \* ---- history of the client
  calls,                \* connect() and disconnect() calls made so far
  \* ---- configuration held by the client
  clientConfig,         \* this.config: [audio, websocket]
  updateLog             \* every updateConfig() call: [updates, threw]

pbVars == <<playbackState, audioBuffer, audioBufferSize, isStreamingComplete,
            playbackRetryTimer, retryTimers, currentAudioElement, sinkLog, inSink,
            received>>

gateVars == <<micPaused, micResumeTimeout, timers, reqAt, pauseLog, resumeLog>>

connVars == <<connectionState, metrics, emitted, session>>

clientVars == <<initialized, mediaStream, liveStreams, audioContext, openContexts,
                collector, connectCalls, cleanups, connectsStarted>>

captureVars == <<captured, sendLog>>

configVars == <<clientConfig, updateLog>>

\* ------------------------------------------------------------ state record
State ==
  [ playbackState |-> playbackState,
    audioBuffer |-> audioBuffer,
    audioBufferSize |-> audioBufferSize,
    isStreamingComplete |-> isStreamingComplete,
    playbackRetryTimer |-> playbackRetryTimer,
    retryTimers |-> retryTimers,
    currentAudioElement |-> currentAudioElement,
    sinkLog |-> sinkLog,
    inSink |-> inSink,
    received |-> received,
    micPaused |-> micPaused,
    micResumeTimeout |-> micResumeTimeout,
    timers |-> timers,
    now |-> now,
    reqAt |-> reqAt,
    pauseLog |-> pauseLog,
    resumeLog |-> resumeLog,
    connectionState |-> connectionState,
    metrics |-> metrics,
    emitted |-> emitted,
    session |-> session,
    initialized |-> initialized,
    mediaStream |-> mediaStream,
    liveStreams |-> liveStreams,
    audioContext |-> audioContext,
    openContexts |-> openContexts,
    collector |-> collector,
    connectCalls |-> connectCalls,
    cleanups |-> cleanups,
    connectsStarted |-> connectsStarted,
    captured |-> captured,
    sendLog |-> sendLog,
    clientConfig |-> clientConfig,
    updateLog |-> updateLog ]

Become(s) ==
  /\ playbackState' = s.playbackState
  /\ audioBuffer' = s.audioBuffer
  /\ audioBufferSize' = s.audioBufferSize
  /\ isStreamingComplete' = s.isStreamingComplete
  /\ playbackRetryTimer' = s.playbackRetryTimer
  /\ retryTimers' = s.retryTimers
  /\ currentAudioElement' = s.currentAudioElement
  /\ sinkLog' = s.sinkLog
  /\ inSink' = s.inSink
  /\ received' = s.received
  /\ micPaused' = s.micPaused
  /\ micResumeTimeout' = s.micResumeTimeout
  /\ timers' = s.timers
  /\ now' = s.now
  /\ reqAt' = s.reqAt
  /\ pauseLog' = s.pauseLog
  /\ resumeLog' = s.resumeLog
  /\ connectionState' = s.connectionState
  /\ metrics' = s.metrics
  /\ emitted' = s.emitted
  /\ session' = s.session
  /\ initialized' = s.initialized
  /\ mediaStream' = s.mediaStream
  /\ liveStreams' = s.liveStreams
  /\ audioContext' = s.audioContext
  /\ openContexts' = s.openContexts
  /\ collector' = s.collector
  /\ connectCalls' = s.connectCalls
  /\ cleanups' = s.cleanups
  /\ connectsStarted' = s.connectsStarted
  /\ captured' = s.captured
  /\ sendLog' = s.sendLog
  /\ clientConfig' = s.clientConfig
  /\ updateLog' = s.updateLog

\* ------------------------------------------------------- microphone gate
TimerRevisions == {"service", "part_003"}

\* private audioWorkletNode: AudioWorkletNode | null = null; no revision
\* ever assigns a node to it
audioWorkletNode == NULL

\* this.audioWorkletNode.port.postMessage({type: ...}) behind its null check
postMessage(s, type) ==
  IF audioWorkletNode # NULL
  THEN [s EXCEPT !.micPaused = (type = "pause")]
  ELSE s

setTimeout(s, kind, req, delay) ==
  [s EXCEPT !.timers = @ \cup {[kind |-> kind, req |-> req, due |-> s.now + delay]}]

clearTimeout(s, handle) ==
  [s EXCEPT !.timers = {t \in @ : <<t.kind, t.req>> # handle}]

\* a pause that waits for a timer of its own
pauseMicrophoneDeferred(s) ==
  setTimeout([s EXCEPT !.pauseLog = Append(@, [seen |-> Len(s.reqAt)])],
             "resume", 0, config.resumeDelay)

pauseMicrophone(s) ==
  LET s1 == [s EXCEPT !.pauseLog = Append(@, [seen |-> Len(s.reqAt)])]
  IN IF rev = "part_004"
     THEN [s1 EXCEPT !.micPaused = TRUE]
     ELSE postMessage(s1, "pause")

\* service.ts 187-211, part_003 94-118: three timers per call; the handle of
\* the first is overwritten by the handle of the third
resumeMicrophoneTimers(s) ==
  LET r == Len(s.reqAt) + 1
      s0 == [s EXCEPT !.reqAt = Append(@, s.now)]
      s1 == IF s0.micResumeTimeout # NoTimer
            THEN clearTimeout(s0, s0.micResumeTimeout) ELSE s0
      s2 == [setTimeout(s1, "resume", r, config.resumeDelay)
               EXCEPT !.micResumeTimeout = <<"resume", r>>]
      s3 == setTimeout(s2, "failsafe", r, config.failsafeResumeTimeout)
  IN IF s3.micResumeTimeout # NoTimer
     THEN [setTimeout(s3, "cancelFailsafe", r, config.resumeDelay)
             EXCEPT !.micResumeTimeout = <<"cancelFailsafe", r>>]
     ELSE s3

\* part_004 93-96
resumeMicrophoneFlag(s) ==
  LET r == Len(s.reqAt) + 1
  IN [s EXCEPT !.reqAt = Append(@, s.now),
               !.micPaused = FALSE,
               !.resumeLog = Append(@, [req |-> r, kind |-> "direct", at |-> s.now,
                                        seen |-> r])]

\* a debounce alone: the previous resume timer is cancelled and replaced,
\* and nothing else is started
resumeMicrophoneDebounceOnly(s) ==
  LET r == Len(s.reqAt) + 1
      s0 == [s EXCEPT !.reqAt = Append(@, s.now)]
      s1 == IF s0.micResumeTimeout # NoTimer
            THEN clearTimeout(s0, s0.micResumeTimeout) ELSE s0
  IN [setTimeout(s1, "resume", r, config.resumeDelay)
        EXCEPT !.micResumeTimeout = <<"resume", r>>]

resumeMicrophone(s) ==
  IF rev = "part_004" THEN resumeMicrophoneFlag(s) ELSE resumeMicrophoneTimers(s)

\* the three callbacks resumeMicrophone hands to setTimeout
timerCallback(s, t) ==
  LET logged == [s EXCEPT !.resumeLog =
                   Append(@, [req |-> t.req, kind |-> t.kind, at |-> s.now,
                              seen |-> Len(s.reqAt)])]
  IN CASE t.kind = "resume" ->
            [postMessage(logged, "resume") EXCEPT !.micResumeTimeout = NoTimer]
       [] t.kind = "failsafe" -> postMessage(logged, "resume")
       [] t.kind = "cancelFailsafe" -> clearTimeout(s, <<"failsafe", t.req>>)

\* timers run in order of expiry, and in order of creation when they expire
\* together
kindRank(kind) ==
  CASE kind = "resume" -> 0 [] kind = "failsafe" -> 1 [] kind = "cancelFailsafe" -> 2

runsBefore(a, b) ==
  \/ a.due < b.due
  \/ a.due = b.due /\ a.req < b.req
  \/ a.due = b.due /\ a.req = b.req /\ kindRank(a.kind) < kindRank(b.kind)

\* ------------------------------------------------------- playback buffer
isPlaying(s) == s.playbackState = "playing"

\* a push that leaves the byte count alone
addToBufferUncounted(s, chunk) ==
  [s EXCEPT !.audioBuffer = Append(@, chunk)]

\* a push that replaces what is pending
addToBufferDropping(s, chunk) ==
  [s EXCEPT !.audioBuffer = <<chunk>>,
            !.audioBufferSize = chunk.byteLength]

addToBuffer(s, chunk) ==
  [s EXCEPT !.audioBuffer = Append(@, chunk),
            !.audioBufferSize = @ + chunk.byteLength]

getBufferInfo(s) ==
  [chunks |-> Len(s.audioBuffer), totalBytes |-> s.audioBufferSize]

\* a drain that leaves the newest chunk behind
clearBufferPartial(s) ==
  IF s.audioBuffer = <<>> THEN s
  ELSE [s EXCEPT !.audioBuffer = <<@[Len(@)]>>,
                 !.audioBufferSize = s.audioBuffer[Len(s.audioBuffer)].byteLength,
                 !.isStreamingComplete = FALSE]

clearBuffer(s) ==
  [s EXCEPT !.audioBuffer = <<>>,
            !.audioBufferSize = 0,
            !.isStreamingComplete = FALSE]

\* buffers.reduce((sum, buf) => sum + buf.byteLength, 0)
RECURSIVE totalLengthOf(_)
totalLengthOf(buffers) ==
  IF buffers = <<>> THEN 0
  ELSE totalLengthOf(SubSeq(buffers, 1, Len(buffers) - 1))
         + buffers[Len(buffers)].byteLength

\* for (const buffer of buffers) { result.set(buffer, offset); offset += ... }
\* The result is kept as the list of writes: which chunk at which offset.
RECURSIVE copyLoop(_, _, _)
copyLoop(buffers, offset, result) ==
  IF buffers = <<>> THEN result
  ELSE copyLoop(Tail(buffers), offset + Head(buffers).byteLength,
                Append(result, [id |-> Head(buffers).id, offset |-> offset,
                                byteLength |-> Head(buffers).byteLength]))

\* a copy loop that walks the buffers from the newest to the oldest
combineBuffersReversed(buffers) ==
  LET rv == [i \in 1..Len(buffers) |-> buffers[Len(buffers) + 1 - i]]
  IN [byteLength |-> totalLengthOf(buffers), writes |-> copyLoop(rv, 0, <<>>)]

combineBuffers(buffers) ==
  [byteLength |-> totalLengthOf(buffers), writes |-> copyLoop(buffers, 0, <<>>)]

\* service.ts 176-179 resumes the microphone; input-processor.ts 266-269
\* has the call commented out
completePlayback(s) ==
  LET s1 == [s EXCEPT !.playbackState = "completed"]
  IN IF rev = "service" THEN resumeMicrophone(s1) ELSE s1

\* clearTimeout(this.playbackRetryTimer): the callback of the handle, if it
\* has not run yet, never runs
clearRetryTimer(s) ==
  IF s.playbackRetryTimer = "pending" THEN [s EXCEPT !.retryTimers = @ - 1] ELSE s

playNextSegment(s) ==
  LET s1 == IF s.playbackRetryTimer # NULL
            THEN [clearRetryTimer(s) EXCEPT !.playbackRetryTimer = NULL] ELSE s
  IN IF Len(s1.audioBuffer) = 0
     THEN IF s1.isStreamingComplete THEN completePlayback(s1) ELSE s1
     ELSE LET combined == combineBuffers(s1.audioBuffer)
              s2 == clearBuffer(s1)
              n == Len(s2.sinkLog) + 1
          IN [s2 EXCEPT !.sinkLog = Append(@, [combined |-> combined,
                                               from |-> s1.audioBuffer,
                                               complete |-> s1.isStreamingComplete]),
                        !.inSink = @ \cup {n},
                        !.currentAudioElement = n,
                        !.playbackState = "playing"]

\* a decision that schedules a retry whether or not one is scheduled
attemptPlaybackReschedules(s) ==
  LET bufferInfo == getBufferInfo(s)
      bytesOk == IF isPlaying(s)
                 THEN 4 * bufferInfo.totalBytes >= 3 * config.minBufferSize
                 ELSE bufferInfo.totalBytes >= config.minBufferSize
      chunksOk == IF isPlaying(s)
                  THEN 4 * bufferInfo.chunks >= 3 * config.targetChunks
                  ELSE bufferInfo.chunks >= config.targetChunks
      shouldStart == bytesOk \/ chunksOk
                     \/ (s.isStreamingComplete /\ bufferInfo.totalBytes > 0)
  IN IF shouldStart THEN playNextSegment(s)
     ELSE [s EXCEPT !.playbackRetryTimer = "pending", !.retryTimers = @ + 1]

attemptPlayback(s) ==
  LET bufferInfo == getBufferInfo(s)
      \* minBufferSize * 0.75 and targetChunks * 0.75, compared in quarters
      bytesOk == IF isPlaying(s)
                 THEN 4 * bufferInfo.totalBytes >= 3 * config.minBufferSize
                 ELSE bufferInfo.totalBytes >= config.minBufferSize
      chunksOk == IF isPlaying(s)
                  THEN 4 * bufferInfo.chunks >= 3 * config.targetChunks
                  ELSE bufferInfo.chunks >= config.targetChunks
      shouldStart == bytesOk \/ chunksOk
                     \/ (s.isStreamingComplete /\ bufferInfo.totalBytes > 0)
  IN IF shouldStart THEN playNextSegment(s)
     ELSE IF s.playbackRetryTimer = NULL
          THEN [s EXCEPT !.playbackRetryTimer = "pending", !.retryTimers = @ + 1]
          ELSE s

\* the buffering decision runs whatever the playback state
handleIncomingAudioChunkAlways(s, chunk) == attemptPlayback(addToBuffer(s, chunk))

handleIncomingAudioChunk(s, chunk) ==
  LET s1 == addToBuffer(s, chunk)
  IN IF ~isPlaying(s1) THEN attemptPlayback(s1) ELSE s1

setStreamComplete(s) ==
  LET s1 == [s EXCEPT !.isStreamingComplete = TRUE]
  IN IF s1.audioBufferSize > 0 /\ ~isPlaying(s1) THEN playNextSegment(s1) ELSE s1

\* reset(): clearTimeout without clearing the field
reset(s) ==
  LET s1 == IF rev # "service" /\ s.playbackRetryTimer # NULL
            THEN [clearRetryTimer(s) EXCEPT !.playbackRetryTimer = "cleared"]
            ELSE s
  IN [s1 EXCEPT !.playbackState = "idle",
                !.audioBuffer = <<>>,
                !.audioBufferSize = 0,
                !.isStreamingComplete = FALSE,
                !.currentAudioElement = NoId]

\* ---------------------------------------------------- connection session
isConnected(s) == s.connectionState = "connected"

emit(s, type) == [s EXCEPT !.emitted[type] = @ + 1]

RECURSIVE pow(_, _)
pow(b, k) == IF k = 0 THEN 1 ELSE b * pow(b, k - 1)

\* the delay grows by the multiplier and is never capped
backoffDelayUncapped(attempts) ==
  [num |-> wsConfig.reconnectDelay
             * pow(wsConfig.reconnectBackoffMultiplier.num, attempts),
   den |-> pow(wsConfig.reconnectBackoffMultiplier.den, attempts)]

\* min(reconnectDelay * multiplier^attempts, maxReconnectDelay) in
\* milliseconds, as the fraction num/den
backoffDelay(attempts) ==
  LET n == wsConfig.reconnectDelay
             * pow(wsConfig.reconnectBackoffMultiplier.num, attempts)
      d == pow(wsConfig.reconnectBackoffMultiplier.den, attempts)
  IN IF n <= wsConfig.maxReconnectDelay * d
     THEN [num |-> n, den |-> d]
     ELSE [num |-> wsConfig.maxReconnectDelay, den |-> 1]

\* the reconnect, connection-timeout and heartbeat timers are cancelled
stopTimers(s) ==
  [s EXCEPT !.session.reconnectTimer = NoTimer,
            !.session.connectionTimeout = FALSE,
            !.session.heartbeat = "off"]

\* send(bytes): NotConnected unless Connected
wsSend(s, data) ==
  IF s.connectionState # "connected"
  THEN [s EXCEPT !.session.notConnected = @ + 1]
  ELSE [s EXCEPT !.metrics.bytesSent = @ + data.byteLength,
                 !.metrics.messagesSent = @ + 1,
                 !.sendLog = Append(@, [id |-> data.id, paused |-> s.micPaused])]

\* connect(): from Disconnected or Error, the transport is opened under
\* the connection timeout
wsConnect(s) ==
  IF s.connectionState \in {"disconnected", "error"}
  THEN [s EXCEPT !.connectionState = "connecting",
                 !.session.reconnectTimer = NoTimer,
                 !.session.connectionTimeout = TRUE]
  ELSE s

\* disconnect(): the transport is closed, every timer stopped, the
\* counters of the session reset
wsDisconnect(s) ==
  IF s.connectionState = "disconnected"
  THEN s
  ELSE emit([stopTimers(s) EXCEPT !.connectionState = "disconnected",
                                  !.session.reconnecting = FALSE,
                                  !.metrics.disconnectedAt = <<s.now>>,
                                  !.metrics.bytesSent = 0,
                                  !.metrics.bytesReceived = 0,
                                  !.metrics.messagesSent = 0,
                                  !.metrics.messagesReceived = 0],
            "disconnected")

\* the next retry is scheduled whatever the number of attempts made
scheduleReconnectNoLimit(s) ==
  [s EXCEPT !.session.reconnecting = TRUE,
            !.session.reconnectTimer =
               <<[attempt |-> s.metrics.reconnectAttempts,
                  delay |-> backoffDelay(s.metrics.reconnectAttempts)]>>,
            !.session.backoffLog =
               Append(@, [attempt |-> s.metrics.reconnectAttempts,
                          delay |-> backoffDelay(s.metrics.reconnectAttempts)]),
            !.metrics.reconnectAttempts = @ + 1]

\* reconnection policy: the next retry is scheduled, or the attempts are
\* exhausted and ReconnectExhausted is raised
scheduleReconnect(s) ==
  IF s.metrics.reconnectAttempts < wsConfig.maxReconnectAttempts
  THEN [s EXCEPT !.session.reconnecting = TRUE,
                 !.session.reconnectTimer =
                    <<[attempt |-> s.metrics.reconnectAttempts,
                       delay |-> backoffDelay(s.metrics.reconnectAttempts)]>>,
                 !.session.backoffLog =
                    Append(@, [attempt |-> s.metrics.reconnectAttempts,
                               delay |-> backoffDelay(s.metrics.reconnectAttempts)]),
                 !.metrics.reconnectAttempts = @ + 1]
  ELSE [s EXCEPT !.session.reconnecting = FALSE,
                 !.session.reason = "ReconnectExhausted",
                 !.session.exhausted = @ + 1]

\* the transport closed without disconnect(), or the heartbeat was lost
transportLost(s, reason) ==
  LET s1 == emit([stopTimers(s) EXCEPT !.metrics.disconnectedAt = <<s.now>>],
                 "disconnected")
  IN IF wsConfig.reconnect
     THEN scheduleReconnect([s1 EXCEPT !.connectionState = "error",
                                       !.session.reason = reason])
     ELSE [s1 EXCEPT !.connectionState = "disconnected"]

\* the failure is taken without recording what failed
connectFailedNoReason(s, reason) ==
  LET s1 == emit([stopTimers(s) EXCEPT !.connectionState = "error",
                                       !.session.reason = NULL,
                                       !.connectCalls.rejected =
                                          @ + s.connectCalls.wsConnect,
                                       !.connectCalls.wsConnect = 0],
                 "connection_error")
  IN IF s.session.reconnecting THEN scheduleReconnect(s1) ELSE s1

\* the transport did not open: the attempt failed or timed out
connectFailed(s, reason) ==
  LET s1 == emit([stopTimers(s) EXCEPT !.connectionState = "error",
                                       !.session.reason = reason,
                                       !.connectCalls.rejected =
                                          @ + s.connectCalls.wsConnect,
                                       !.connectCalls.wsConnect = 0],
                 "connection_error")
  IN IF s.session.reconnecting THEN scheduleReconnect(s1) ELSE s1

\* the transport opened, and the counters start again from zero
connectSucceededFresh(s) ==
  emit([s EXCEPT !.connectionState = "connected",
                 !.metrics.reconnectAttempts = 0,
                 !.metrics.bytesSent = 0,
                 !.metrics.bytesReceived = 0,
                 !.metrics.messagesSent = 0,
                 !.metrics.messagesReceived = 0,
                 !.metrics.connectedAt = <<s.now>>,
                 !.connectCalls.wsConnect = 0,
                 !.session.connectionTimeout = FALSE,
                 !.session.heartbeat = "waiting",
                 !.session.reconnecting = FALSE,
                 !.session.reason = NULL], "connected")

\* the transport opened
connectSucceeded(s) ==
  emit([s EXCEPT !.connectionState = "connected",
                 !.metrics.reconnectAttempts = 0,
                 !.metrics.connectedAt = <<s.now>>,
                 !.connectCalls.wsConnect = 0,
                 !.session.connectionTimeout = FALSE,
                 !.session.heartbeat = "waiting",
                 !.session.reconnecting = FALSE,
                 !.session.reason = NULL], "connected")

wsReceived(s, byteLength) ==
  [s EXCEPT !.metrics.bytesReceived = @ + byteLength,
            !.metrics.messagesReceived = @ + 1]

\* ------------------------------------------------------ capture and send
\* the callback without its isConnected() check
sendAudioToServerUnchecked(s, data) == wsSend(s, data)

\* ModoVoiceClient constructor: the callback given to setSendAudioCallback
sendAudioToServer(s, data) ==
  IF isConnected(s) THEN wsSend(s, data) ELSE s

tempChunkCreateCallbackUngated(s, data) == sendAudioToServer(s, data)

\* part_004 62-65 checks micPaused; service.ts 67 / part_003 65 pass
\* sendAudioToServer itself
tempChunkCreateCallback(s, data) ==
  IF rev = "part_004"
  THEN IF s.micPaused THEN s ELSE sendAudioToServer(s, data)
  ELSE sendAudioToServer(s, data)

\* bufferSize = 4096 frames of one channel, three frames per encoded chunk,
\* two bytes per sample, base64
encodedLength == 4 * ((3 * 4096 * 2 + 2) \div 3)

capturing(s) ==
  /\ s.collector.stream # NoId
  /\ s.collector.stream \in s.liveStreams
  /\ s.collector.context \in s.openContexts

\* ---------------------------------------------------------------- cleanup
cleanupRest(s) == reset(s)

cleanup(s) ==
  LET s1 == IF rev = "service" /\ s.playbackRetryTimer # NULL
            THEN [clearRetryTimer(s) EXCEPT !.playbackRetryTimer = "cleared"]
            ELSE s
      s2 == IF s1.micResumeTimeout # NoTimer
            THEN clearTimeout(s1, s1.micResumeTimeout) ELSE s1
      s3 == IF s2.currentAudioElement # NoId
            THEN [s2 EXCEPT !.inSink = @ \ {s2.currentAudioElement}] ELSE s2
      s4 == IF s3.mediaStream # NoId
            THEN [s3 EXCEPT !.liveStreams = @ \ {s3.mediaStream},
                            !.mediaStream = NoId]
            ELSE s3
  IN IF s4.audioContext # NoId /\ s4.audioContext \in s4.openContexts
     THEN [s4 EXCEPT !.openContexts = @ \ {s4.audioContext},
                     !.cleanups = @ + 1]
     ELSE cleanupRest(s4)

\* ----------------------------------------------------------------- client
\* connect() without its isConnected() guard
connectUnguarded(s) ==
  [s EXCEPT !.connectCalls.getUserMedia = @ + 1,
            !.connectsStarted = @ + 1]

connect(s) ==
  IF isConnected(s)
  THEN s
  ELSE [s EXCEPT !.connectCalls.getUserMedia = @ + 1,
                 !.connectsStarted = @ + 1]

\* initialize() fails at a suspension point and the error is dropped:
\* connect() goes on to the transport
initializeFailedSwallowed(s, point) ==
  LET s1 == wsConnect([s EXCEPT !.connectCalls[point] = @ - 1,
                                !.initialized = TRUE])
  IN IF s1.connectionState = "connecting"
     THEN [s1 EXCEPT !.connectCalls.wsConnect = @ + 1]
     ELSE s1

\* initialize() fails at a suspension point: its catch emits ERROR and
\* rethrows, connect() logs and rethrows
initializeFailed(s, point) ==
  [s EXCEPT !.connectCalls[point] = @ - 1,
            !.connectCalls.rejected = @ + 1]

\* disconnect() without its isConnected() guard
disconnectUnguarded(s) ==
  LET s1 == cleanup(wsDisconnect(s))
  IN IF s1.cleanups = s.cleanups
     THEN [s1 EXCEPT !.initialized = FALSE]
     ELSE s1

disconnect(s) ==
  IF ~isConnected(s)
  THEN s
  ELSE LET s1 == cleanup(wsDisconnect(s))
       IN IF s1.cleanups = s.cleanups
          THEN [s1 EXCEPT !.initialized = FALSE]
          ELSE s1

\* ---------------------------------------------------------- configuration
\* {...a, ...b}: the fields of b over the fields of a
spread(a, b) ==
  [k \in (DOMAIN a) \cup (DOMAIN b) |-> IF k \in DOMAIN b THEN b[k] ELSE a[k]]

\* config.<section>, or undefined spread as {}
sectionOf(c, name, default) ==
  IF name \in DOMAIN c THEN spread(default, c[name]) ELSE default

mergeWithDefaults(c) ==
  [audio |-> sectionOf(c, "audio", DefaultAudioConfig),
   websocket |-> sectionOf(c, "websocket", DefaultWsConfig)]

getConfig(s) == s.clientConfig

\* updateConfig() without its isConnected() check
updateConfigUnguarded(s, updates) ==
  [s EXCEPT !.clientConfig = mergeWithDefaults(spread(s.clientConfig, updates)),
            !.updateLog = Append(@, [updates |-> updates, threw |-> FALSE])]

updateConfig(s, updates) ==
  IF isConnected(s)
  THEN [s EXCEPT !.updateLog = Append(@, [updates |-> updates, threw |-> TRUE])]
  ELSE [s EXCEPT !.clientConfig = mergeWithDefaults(spread(s.clientConfig, updates)),
                 !.updateLog = Append(@, [updates |-> updates, threw |-> FALSE])]

\* ----------------------------------------------------------------- actions
\* disconnected and connection_error events emitted so far
faults(s) == s.emitted.disconnected + s.emitted.connection_error

\* client.connect(), called at any moment
ConnectCall ==
  /\ calls.connect < MaxConnects
  /\ calls' = [calls EXCEPT !.connect = @ + 1]
  /\ Become(connect(State))
  /\ UNCHANGED <<rev, config, wsConfig>>

\* client.connect() as the application calls it to open the one session
SessionConnectCall ==
  /\ connectsStarted < MaxSessions
  /\ ~isConnected(State)
  /\ Become(connect(State))
  /\ UNCHANGED <<rev, config, wsConfig, calls>>

\* client.connect() as the application calls it the first time
FirstConnectCall ==
  /\ connectsStarted = 0
  /\ Become(connect(State))
  /\ UNCHANGED <<rev, config, wsConfig, calls>>

\* initialize(): getUserMedia resolves; stream and context are created
GetUserMediaOk ==
  /\ connectCalls.getUserMedia > 0
  /\ LET id == connectsStarted - connectCalls.getUserMedia + 1
     IN Become([State EXCEPT !.connectCalls.getUserMedia = @ - 1,
                             !.connectCalls.addModule = @ + 1,
                             !.mediaStream = id,
                             !.liveStreams = @ \cup {id},
                             !.audioContext = id,
                             !.openContexts = @ \cup {id}])
  /\ UNCHANGED <<rev, config, wsConfig, calls>>

GetUserMediaFail ==
  /\ connectCalls.getUserMedia > 0
  /\ Become(initializeFailed(State, "getUserMedia"))
  /\ UNCHANGED <<rev, config, wsConfig, calls>>

\* initialize(): addModule resolves, the collector starts; connect():
\* initialized = true, webSocketService.connect()
AddModuleOk ==
  /\ connectCalls.addModule > 0
  /\ LET s0 == [State EXCEPT !.connectCalls.addModule = @ - 1]
     IN IF s0.audioContext = NoId \/ s0.mediaStream = NoId
        THEN Become(initializeFailed(State, "addModule"))
        ELSE LET s1 == [s0 EXCEPT !.collector = [stream |-> s0.mediaStream,
                                                 context |-> s0.audioContext],
                                  !.initialized = TRUE]
                 s2 == wsConnect(s1)
             IN Become(IF s2.connectionState = "connecting"
                       THEN [s2 EXCEPT !.connectCalls.wsConnect = @ + 1]
                       ELSE s2)
  /\ UNCHANGED <<rev, config, wsConfig, calls>>

AddModuleFail ==
  /\ connectCalls.addModule > 0
  /\ Become(initializeFailed(State, "addModule"))
  /\ UNCHANGED <<rev, config, wsConfig, calls>>

TransportOpened ==
  /\ connectionState = "connecting"
  /\ Become(connectSucceeded(State))
  /\ UNCHANGED <<rev, config, wsConfig, calls>>

TransportFailed ==
  /\ connectionState = "connecting"
  /\ faults(State) < MaxFaults
  /\ Become(connectFailed(State, "ConnectionFailed"))
  /\ UNCHANGED <<rev, config, wsConfig, calls>>

\* the connection timeout expires before the transport opens
ConnectionTimeoutFires ==
  /\ session.connectionTimeout
  /\ faults(State) < MaxFaults
  /\ Become(connectFailed(State, "ConnectionTimeout"))
  /\ UNCHANGED <<rev, config, wsConfig, calls>>

UnexpectedClose ==
  /\ connectionState = "connected"
  /\ faults(State) < MaxFaults
  /\ Become(transportLost(State, "TransportClosed"))
  /\ UNCHANGED <<rev, config, wsConfig, calls>>

\* the backoff delay has passed: connect() is retried
ReconnectTimerFires ==
  /\ session.reconnectTimer # NoTimer
  /\ Become(wsConnect(State))
  /\ UNCHANGED <<rev, config, wsConfig, calls>>

\* pingInterval has passed: a liveness probe is sent
HeartbeatProbe ==
  /\ session.heartbeat = "waiting"
  /\ session.probes < MaxProbes
  /\ Become([State EXCEPT !.session.heartbeat = "probing",
                          !.session.probes = @ + 1])
  /\ UNCHANGED <<rev, config, wsConfig, calls>>

\* the acknowledgement arrives within pongTimeout
PongReceived ==
  /\ session.heartbeat = "probing"
  /\ Become([State EXCEPT !.session.heartbeat = "waiting"])
  /\ UNCHANGED <<rev, config, wsConfig, calls>>

\* the lost heartbeat puts the session in Error and schedules nothing
PongTimeoutNoRetry ==
  /\ session.heartbeat = "probing"
  /\ faults(State) < MaxFaults
  /\ Become(emit([stopTimers(State) EXCEPT !.connectionState = "error",
                                           !.session.reason = "HeartbeatLost",
                                           !.metrics.disconnectedAt = <<now>>],
                 "disconnected"))
  /\ UNCHANGED <<rev, config, wsConfig, calls>>

\* pongTimeout has passed without the acknowledgement
PongTimeout ==
  /\ session.heartbeat = "probing"
  /\ faults(State) < MaxFaults
  /\ Become(transportLost(State, "HeartbeatLost"))
  /\ UNCHANGED <<rev, config, wsConfig, calls>>

\* client.updateConfig(updates), called at any moment
UpdateConfigCall ==
  /\ Len(updateLog) < MaxUpdates
  /\ \E updates \in Updates : Become(updateConfig(State, updates))
  /\ UNCHANGED <<rev, config, wsConfig, calls>>

\* client.disconnect(), called at any moment
DisconnectCall ==
  /\ calls.disconnect < MaxDisconnects
  /\ calls' = [calls EXCEPT !.disconnect = @ + 1]
  /\ Become(disconnect(State))
  /\ UNCHANGED <<rev, config, wsConfig>>

\* client.disconnect() as the application calls it to close the session
SessionDisconnectCall ==
  /\ isConnected(State)
  /\ Become(disconnect(State))
  /\ UNCHANGED <<rev, config, wsConfig, calls>>

\* audioContext.close() resolves: cleanup() goes on, then disconnect()
CleanupFinish ==
  /\ cleanups > 0
  /\ Become([cleanupRest([State EXCEPT !.cleanups = @ - 1,
                                       !.audioContext = NoId])
               EXCEPT !.initialized = FALSE])
  /\ UNCHANGED <<rev, config, wsConfig, calls>>

\* the capture pipeline produces an encoded chunk and calls the callback
CaptureChunk ==
  /\ captured < MaxCaptured
  /\ capturing(State)
  /\ Become(tempChunkCreateCallback(
              [State EXCEPT !.captured = @ + 1],
              [id |-> captured + 1, byteLength |-> encodedLength]))
  /\ UNCHANGED <<rev, config, wsConfig, calls>>

\* a binary frame: EventType.AI_PLAYBACK_CHUNK listener
OnChunk ==
  /\ connectionState = "connected"
  /\ received < MaxChunks
  /\ \E n \in ChunkSizes :
       Become(handleIncomingAudioChunk(
                wsReceived([State EXCEPT !.received = @ + 1], n),
                [id |-> received + 1, byteLength |-> n]))
  /\ UNCHANGED <<rev, config, wsConfig, calls>>

\* the callback of a retry timer that was not cancelled
RetryTimerFires ==
  /\ retryTimers > 0
  /\ Become(attemptPlayback([State EXCEPT !.playbackRetryTimer = NULL,
                                          !.retryTimers = @ - 1]))
  /\ UNCHANGED <<rev, config, wsConfig, calls>>

MarkStreamComplete ==
  /\ Become(setStreamComplete(State))
  /\ UNCHANGED <<rev, config, wsConfig, calls>>

\* audio.onended: the segment leaves the sink and playNextSegment runs
SinkEnded ==
  /\ \E n \in inSink :
       Become(playNextSegment([State EXCEPT !.inSink = @ \ {n}]))
  /\ UNCHANGED <<rev, config, wsConfig, calls>>

\* audio.onerror (or a rejected play()): the object URL is revoked, nothing else
SinkError ==
  /\ \E n \in inSink :
       Become([State EXCEPT !.inSink = @ \ {n}])
  /\ UNCHANGED <<rev, config, wsConfig, calls>>

\* EventType.MICROPHONE_PAUSED listener (turn-change to ai)
MicrophonePaused ==
  /\ connectionState = "connected"
  /\ Len(pauseLog) < MaxPauses
  /\ Become(pauseMicrophone(State))
  /\ UNCHANGED <<rev, config, wsConfig, calls>>

\* EventType.MICROPHONE_RESUMED listener (turn-change to user)
MicrophoneResumed ==
  /\ connectionState = "connected"
  /\ Len(reqAt) < MaxRequests
  /\ Become(resumeMicrophone(State))
  /\ UNCHANGED <<rev, config, wsConfig, calls>>

TimerFires ==
  /\ \E t \in timers :
       /\ t.due <= now
       /\ \A u \in timers : ~runsBefore(u, t)
       /\ Become(timerCallback([State EXCEPT !.timers = @ \ {t}], t))
  /\ UNCHANGED <<rev, config, wsConfig, calls>>

\* time passes once every expired timer has run; the clock counts from the
\* first connection, nothing timed exists before it
Tick ==
  /\ now < MaxTime
  /\ metrics.connectedAt # <<>>
  /\ \A t \in timers : t.due > now
  /\ now' = now + 1
  /\ UNCHANGED <<rev, config, wsConfig, calls, pbVars, gateVars, connVars, clientVars, captureVars,
                configVars>>

vars == <<rev, config, wsConfig, calls, pbVars, gateVars, now, connVars, clientVars, captureVars,
                configVars>>

\* ---------------------------------------------------------- specifications
\* the client as constructed
NoSession ==
  [reconnectTimer |-> NoTimer, reconnecting |-> FALSE,
   connectionTimeout |-> FALSE, heartbeat |-> "off", probes |-> 0,
   reason |-> NULL, exhausted |-> 0, backoffLog |-> <<>>, notConnected |-> 0]

InitClient ==
  /\ rev \in Revisions
  /\ config \in Configs
  /\ playbackState = "idle"
  /\ audioBuffer = <<>>
  /\ audioBufferSize = 0
  /\ isStreamingComplete = FALSE
  /\ playbackRetryTimer = NULL
  /\ retryTimers = 0
  /\ currentAudioElement = NoId
  /\ sinkLog = <<>>
  /\ inSink = {}
  /\ received = 0
  /\ micPaused = FALSE
  /\ micResumeTimeout = NoTimer
  /\ timers = {}
  /\ now = 0
  /\ reqAt = <<>>
  /\ pauseLog = <<>>
  /\ resumeLog = <<>>
  /\ connectionState = "disconnected"
  /\ metrics = [connectedAt |-> <<>>, disconnectedAt |-> <<>>,
                reconnectAttempts |-> 0, bytesSent |-> 0, bytesReceived |-> 0,
                messagesSent |-> 0, messagesReceived |-> 0]
  /\ emitted = [connected |-> 0, disconnected |-> 0, connection_error |-> 0]
  /\ session = NoSession
  /\ initialized = FALSE
  /\ mediaStream = NoId
  /\ liveStreams = {}
  /\ audioContext = NoId
  /\ openContexts = {}
  /\ collector = [stream |-> NoId, context |-> NoId]
  /\ connectCalls = [getUserMedia |-> 0, addModule |-> 0, wsConnect |-> 0,
                     rejected |-> 0]
  /\ cleanups = 0
  /\ connectsStarted = 0
  /\ captured = 0
  /\ sendLog = <<>>
  /\ calls = [connect |-> 0, disconnect |-> 0]
  /\ updateLog = <<>>

\* the client constructed with the default websocket configuration
Init ==
  /\ InitClient
  /\ wsConfig = DefaultWsConfig
  /\ clientConfig = mergeWithDefaults([audio |-> config])

\* the client of service.ts constructed with reconnection switched on
InitReconnect ==
  /\ InitClient
  /\ rev = "service"
  /\ config.targetChunks = 20
  /\ wsConfig \in ReconnectConfigs
  /\ clientConfig = mergeWithDefaults([audio |-> config, websocket |-> wsConfig])

LifecycleStep ==
  \/ GetUserMediaOk
  \/ GetUserMediaFail
  \/ AddModuleOk
  \/ AddModuleFail
  \/ TransportOpened
  \/ TransportFailed
  \/ UnexpectedClose
  \/ CleanupFinish

ClientStep == ConnectCall \/ DisconnectCall \/ LifecycleStep

SessionStep == SessionConnectCall \/ SessionDisconnectCall \/ LifecycleStep

PlaybackStep ==
  \/ OnChunk
  \/ RetryTimerFires
  \/ MarkStreamComplete
  \/ SinkEnded
  \/ SinkError

TurnStep == MicrophonePaused \/ MicrophoneResumed

GateStep == TurnStep \/ TimerFires

ReconnectStep ==
  \/ ConnectionTimeoutFires
  \/ ReconnectTimerFires
  \/ HeartbeatProbe
  \/ PongReceived
  \/ PongTimeout

Next ==
  \/ ClientStep
  \/ UpdateConfigCall
  \/ ReconnectStep
  \/ PlaybackStep
  \/ GateStep
  \/ CaptureChunk
  \/ Tick

Spec == Init /\ [][Next]_vars

\* the connection session and the client alone
NextClient == ClientStep \/ CaptureChunk

SpecClient == Init /\ [][NextClient]_vars

\* the playback buffer of one session
NextPlayback == SessionStep \/ PlaybackStep

SpecPlayback == Init /\ [][NextPlayback]_vars

\* the timers of the microphone gate, followed through the first session
\* and past its end
NextGate ==
  FirstConnectCall \/ SessionDisconnectCall \/ LifecycleStep \/ GateStep \/ Tick

SpecGate == Init /\ [][NextGate]_vars

\* the send boundary of one session: turn changes against captured chunks
NextCapture == SessionStep \/ TurnStep \/ CaptureChunk

SpecCapture == Init /\ [][NextCapture]_vars

\* the connection session with reconnection switched on
NextReconnect ==
  \/ FirstConnectCall
  \/ DisconnectCall
  \/ LifecycleStep
  \/ ReconnectStep
  \/ CaptureChunk

SpecReconnect == InitReconnect /\ [][NextReconnect]_vars

\* playback of one session against the turn changes of the server
NextTurn == SessionStep \/ PlaybackStep \/ TurnStep

SpecTurn == Init /\ [][NextTurn]_vars

\* one utterance played to its end: the session opens without a fault,
\* every segment the sink is given ends, and the session stays open
NextStream ==
  \/ FirstConnectCall
  \/ GetUserMediaOk
  \/ AddModuleOk
  \/ TransportOpened
  \/ OnChunk
  \/ RetryTimerFires
  \/ MarkStreamComplete
  \/ SinkEnded

SpecStream == Init /\ [][NextStream]_vars

\* the playback buffer across sessions: connect() may be called again at
\* any moment, also while the cleanup of the previous session waits
NextSessions ==
  \/ ConnectCall
  \/ SessionDisconnectCall
  \/ LifecycleStep
  \/ OnChunk
  \/ RetryTimerFires

SpecSessions == Init /\ [][NextSessions]_vars

\* the same with the end of the stream marked by the application
NextOverlap == NextSessions \/ MarkStreamComplete

SpecOverlap == Init /\ [][NextOverlap]_vars

\* sessions that may overlap, with the segments of the sink ending
NextStale == NextSessions \/ SinkEnded

SpecStale == Init /\ [][NextStale]_vars

\* the playback buffer through the first session and past its end
NextBuffer ==
  \/ FirstConnectCall
  \/ SessionDisconnectCall
  \/ LifecycleStep
  \/ PlaybackStep

SpecBuffer == Init /\ [][NextBuffer]_vars

\* the configuration held by the client, through one session
NextConfig ==
  \/ FirstConnectCall
  \/ SessionDisconnectCall
  \/ LifecycleStep
  \/ UpdateConfigCall

SpecConfig == Init /\ [][NextConfig]_vars

\* the counters of one session with reconnection: chunks out and in
NextMetrics ==
  \/ FirstConnectCall
  \/ DisconnectCall
  \/ LifecycleStep
  \/ ReconnectTimerFires
  \/ CaptureChunk
  \/ OnChunk

SpecMetrics == InitReconnect /\ [][NextMetrics]_vars

\* one session with reconnection, where a timer that is due fires and a
\* transport that is being opened opens or fails; the application may stay
\* idle
NextRetry ==
  \/ FirstConnectCall
  \/ SessionDisconnectCall
  \/ LifecycleStep
  \/ ReconnectStep

SpecRetryFair ==
  /\ InitReconnect
  /\ [][NextRetry]_vars
  /\ WF_vars(GetUserMediaOk \/ GetUserMediaFail)
  /\ WF_vars(AddModuleOk \/ AddModuleFail)
  /\ WF_vars(TransportOpened \/ TransportFailed \/ ConnectionTimeoutFires)
  /\ WF_vars(ReconnectTimerFires)
  /\ WF_vars(CleanupFinish)

\* ------------------------------------------------------------------ claims
\* the last segment handed to the sink
lastSegment(log) == log[Len(log)]

\* byte offset of the i-th chunk of a segment laid out in the order of chunks
RECURSIVE offsetOf(_, _)
offsetOf(chunks, i) ==
  IF i = 1 THEN 0 ELSE offsetOf(chunks, i - 1) + chunks[i - 1].byteLength

\* C2: chunks are never reordered. Every segment handed to the sink holds
\* the chunks that were buffered, each exactly once, laid end to end in the
\* order in which they arrived (chunk ids count arrivals).
C2_NeverReordered ==
  \A k \in 1..Len(sinkLog) :
    LET seg == sinkLog[k]
        w == seg.combined.writes
    IN /\ Len(w) = Len(seg.from)
       /\ \A i \in 1..Len(w) :
            /\ w[i].id = seg.from[i].id
            /\ w[i].byteLength = seg.from[i].byteLength
            /\ w[i].offset = offsetOf(seg.from, i)
       /\ \A i \in 1..(Len(w) - 1) : w[i].id < w[i + 1].id
       /\ k > 1 => sinkLog[k - 1].from[Len(sinkLog[k - 1].from)].id < seg.from[1].id

\* a segment of two chunks of different lengths has been handed to the sink
C2_Witness ==
  \E k \in 1..Len(sinkLog) :
    /\ Len(sinkLog[k].from) >= 2
    /\ sinkLog[k].from[1].byteLength # sinkLog[k].from[2].byteLength

\* the pending sequence as it is once the chunk of this step, if a chunk
\* arrives in this step, has been appended
pendingWithArrival ==
  IF received' = received + 1
  THEN Append(audioBuffer, [id |-> received',
                            byteLength |-> metrics'.bytesReceived - metrics.bytesReceived])
  ELSE audioBuffer

\* C3: a play consumes the whole pending sequence at once. A step hands at
\* most one segment to the sink and never changes an earlier one; the
\* segment handed over is all that was pending, its byte length is the sum
\* of those chunks' lengths, and right after it the pending sequence is
\* empty and the byte count is 0; a chunk that arrives in a step that hands
\* nothing to the sink is pending afterwards.
C3_Step ==
  /\ Len(sinkLog') \in {Len(sinkLog), Len(sinkLog) + 1}
  /\ SubSeq(sinkLog', 1, Len(sinkLog)) = sinkLog
  /\ Len(sinkLog') = Len(sinkLog) + 1 =>
       /\ lastSegment(sinkLog').from = pendingWithArrival
       /\ lastSegment(sinkLog').combined.byteLength = totalLengthOf(pendingWithArrival)
       /\ audioBuffer' = <<>>
       /\ audioBufferSize' = 0
  /\ (Len(sinkLog') = Len(sinkLog) /\ received' = received + 1) =>
       /\ audioBuffer' = pendingWithArrival
       /\ audioBufferSize' = totalLengthOf(pendingWithArrival)

C3_PlayConsumesAll == [][C3_Step]_vars

\* a segment of several chunks was handed over and a chunk that arrived
\* later is pending
C3_Witness ==
  /\ Len(sinkLog) >= 1
  /\ Len(lastSegment(sinkLog).from) >= 2
  /\ Len(audioBuffer) >= 1
  /\ audioBuffer[1].id > lastSegment(sinkLog).from[Len(lastSegment(sinkLog).from)].id

\* every chunk of the sequence is one of the scenario's 20000-byte chunks
scenarioChunks(chunks) == \A i \in 1..Len(chunks) : chunks[i].byteLength = 20000

\* C4: the end-to-end scenario, minBufferSize = 40000 and targetChunks = 20
\* with chunks of 20000 bytes. The 1st chunk starts no segment; the 2nd
\* starts a first segment of exactly 40000 bytes; the 3rd is handed to the
\* sink only once streamComplete has been signalled, as a segment of exactly
\* 20000 bytes, wherever the end of the first segment falls.
C4_Step ==
  (config.minBufferSize = 40000 /\ config.targetChunks = 20
     /\ scenarioChunks(pendingWithArrival)) =>
    /\ (received = 0 /\ received' = 1 /\ ~isStreamingComplete) =>
         sinkLog' = sinkLog
    /\ (received = 1 /\ received' = 2 /\ Len(audioBuffer) = 1 /\ sinkLog = <<>>
          /\ ~isStreamingComplete /\ ~isPlaying(State)) =>
         /\ Len(sinkLog') = 1
         /\ sinkLog'[1].combined.byteLength = 40000
    /\ (Len(sinkLog) = 1 /\ Len(sinkLog[1].from) = 2
          /\ sinkLog[1].combined.byteLength = 40000
          /\ Len(pendingWithArrival) = 1 /\ Len(sinkLog') = 2) =>
         /\ sinkLog'[2].complete
         /\ sinkLog'[2].combined.byteLength = 20000

C4_EndToEnd == [][C4_Step]_vars

\* the microphone was paused before the first resume request, and the first
\* n resume requests each came within resumeDelay of the one before
debouncedRun(n) ==
  /\ n >= 1 /\ n <= Len(reqAt)
  /\ Len(pauseLog) >= 1 /\ pauseLog[1].seen = 0
  /\ \A i \in 2..n : reqAt[i] - reqAt[i - 1] < config.resumeDelay

\* C5: debounced resume. After a pause, resume requests that each come
\* within resumeDelay of the previous one produce exactly one resume: none
\* runs before resumeDelay has passed since the latest request, and none
\* runs a second time.
C5_DebouncedResume ==
  \A i \in 1..Len(resumeLog) :
    debouncedRun(resumeLog[i].seen) =>
      /\ resumeLog[i].at >= reqAt[resumeLog[i].seen] + config.resumeDelay
      /\ \A j \in 1..(i - 1) : ~debouncedRun(resumeLog[j].seen)

\* C6: failsafe guarantee. After a pause, once failsafeResumeTimeout has
\* passed since the first resume request, a resume has run, no later than
\* failsafeResumeTimeout after that request and however many requests
\* followed it; where the revision has the flag, the flag was lowered.
C6_FailsafeGuarantee ==
  (Len(pauseLog) >= 1 /\ pauseLog[1].seen = 0 /\ Len(reqAt) >= 1
     /\ now > reqAt[1] + config.failsafeResumeTimeout) =>
    \E i \in 1..Len(resumeLog) :
      /\ resumeLog[i].at >= reqAt[1]
      /\ resumeLog[i].at <= reqAt[1] + config.failsafeResumeTimeout

\* the requests kept coming every resumeDelay - 1 ticks, the failsafe
\* delay of the first has passed, and a resume has run
C6_Witness ==
  /\ rev \in TimerRevisions
  /\ Len(reqAt) >= 3
  /\ debouncedRun(3)
  /\ \A i \in 2..3 : reqAt[i] - reqAt[i - 1] = config.resumeDelay - 1
  /\ now > reqAt[1] + config.failsafeResumeTimeout
  /\ \E i \in 1..Len(resumeLog) : resumeLog[i].kind = "failsafe"

\* C7: at most one debounced resume timer is outstanding, and the resume
\* timer of a superseded request never fires: a resume timer that fires
\* belongs to the latest request.
C7_OneResumeTimer ==
  /\ Cardinality({t \in timers : t.kind = "resume"}) <= 1
  /\ \A i \in 1..Len(resumeLog) :
       resumeLog[i].kind = "resume" => resumeLog[i].req = resumeLog[i].seen

\* C8: pause takes effect at once. The step that handles microphone_paused
\* leaves micPaused = TRUE, whatever the flag and the timers were before,
\* and starts no timer (revision part_004, the one with the flag).
C8_Step ==
  (rev = "part_004" /\ Len(pauseLog') = Len(pauseLog) + 1) =>
    /\ micPaused'
    /\ timers' = timers

C9_Step ==
  calls'.disconnect = calls.disconnect + 1 =>
    /\ connectionState = "connected" =>
         /\ emitted'.disconnected = emitted.disconnected + 1
         /\ connectionState' = "disconnected"
    /\ connectionState = "disconnected" => State' = State

C9_DisconnectTwice == [][C9_Step]_vars

\* two disconnect() calls were made, the first of them tore the connected
\* session down, and one disconnected event was emitted in all
C9_Witness ==
  /\ calls.disconnect = 2
  /\ emitted.connected = 1
  /\ emitted.disconnected = 1
  /\ connectionState = "disconnected"
  /\ mediaStream = NoId
  /\ cleanups = 0

\* C10: connect() while Connected is a no-op. It starts no initialisation
\* of the audio capture and no transport, the state stays Connected and
\* every field of the metrics keeps its value.
C10_Step ==
  (calls'.connect = calls.connect + 1 /\ connectionState = "connected") =>
    State' = State

C10_ConnectWhileConnected == [][C10_Step]_vars

\* a second connect() was made on the connected session, whose counters
\* are no longer zero
C10_Witness ==
  /\ calls.connect = 2
  /\ connectsStarted = 1
  /\ connectionState = "connected"
  /\ metrics.messagesSent > 0
  /\ metrics.connectedAt # <<>>

\* C11: disconnect() called in any state other than Disconnected (Connected,
\* Connecting, Error, a reconnect backoff pending) closes the transport,
\* cancels the reconnect, heartbeat and connection-timeout timers and ends in
\* Disconnected, where no automatic connect attempt and no heartbeat probe
\* is pending.
C11_Step ==
  /\ (calls'.disconnect = calls.disconnect + 1 /\ connectionState # "disconnected")
       => connectionState' = "disconnected"
  /\ connectionState' = "disconnected"
       => /\ session'.reconnectTimer = NoTimer
          /\ session'.heartbeat = "off"
          /\ ~session'.connectionTimeout

C11_DisconnectAnyState == [][C11_Step]_vars

\* the chunk the capture pipeline produces next
nextChunk == [id |-> captured + 1, byteLength |-> encodedLength]

\* C12: a send is only valid in Connected. In every other state send(bytes)
\* forwards nothing, fails with NotConnected and leaves bytesSent and
\* messagesSent unchanged, and a captured chunk given to the client's send
\* callback is dropped without reaching the session; in Connected the chunk
\* is forwarded, bytesSent grows by its length and messagesSent by one.
C12_Step ==
  /\ connectionState # "connected"
       => /\ wsSend(State, nextChunk).sendLog = sendLog
          /\ wsSend(State, nextChunk).metrics = metrics
          /\ wsSend(State, nextChunk).session.notConnected = session.notConnected + 1
  /\ (captured' = captured + 1 /\ connectionState # "connected")
       => UNCHANGED <<sendLog, metrics, session>>
  /\ (captured' = captured + 1 /\ connectionState = "connected"
        /\ ~(rev = "part_004" /\ micPaused))
       => /\ Len(sendLog') = Len(sendLog) + 1
          /\ sendLog'[Len(sendLog')].id = captured'
          /\ metrics'.bytesSent = metrics.bytesSent + encodedLength
          /\ metrics'.messagesSent = metrics.messagesSent + 1

C12_SendOnlyConnected == [][C12_Step]_vars

\* chunks were captured in Connected and in another state, and the counters
\* show the forwarded ones only
C12_Witness ==
  /\ captured = 2
  /\ connectionState # "connected"
  /\ metrics.messagesSent = 1
  /\ metrics.bytesSent = encodedLength

\* fractions a and b are the same number
sameDelay(a, b) == a.num * b.den = b.num * a.den

\* the delays of the specification for reconnectDelay 1000, multiplier 1.5:
\* 1000, 1500, 2250, 3375, 5062.5
scenarioDelays ==
  << [num |-> 1000, den |-> 1], [num |-> 1500, den |-> 1],
     [num |-> 2250, den |-> 1], [num |-> 3375, den |-> 1],
     [num |-> 10125, den |-> 2] >>

\* C13: the k-th retry of a backoff sequence (k from 0) waits
\* min(reconnectDelay * multiplier^k, maxReconnectDelay) and raises
\* reconnectAttempts by one; with 1000 / 1.5 / 30000 the delays are 1000,
\* 1500, 2250, 3375, 5062.5, and no delay exceeds maxReconnectDelay.
C13_Step ==
  /\ \A i \in 1..Len(session'.backoffLog) :
       LET entry == session'.backoffLog[i]
       IN /\ entry.delay.num <= wsConfig.maxReconnectDelay * entry.delay.den
          /\ entry.attempt < 5
               => \/ sameDelay(entry.delay, scenarioDelays[entry.attempt + 1])
                  \/ /\ sameDelay(entry.delay,
                                  [num |-> wsConfig.maxReconnectDelay, den |-> 1])
                     /\ scenarioDelays[entry.attempt + 1].num
                          >= wsConfig.maxReconnectDelay
                               * scenarioDelays[entry.attempt + 1].den
  /\ Len(session'.backoffLog) = Len(session.backoffLog) + 1
       => /\ metrics'.reconnectAttempts = metrics.reconnectAttempts + 1
          /\ session'.backoffLog[Len(session'.backoffLog)].attempt
               = metrics.reconnectAttempts

C13_Backoff == [][C13_Step]_vars

\* five retries of one sequence were scheduled under the default delays, the
\* fifth after 5062.5 ms
C13_Witness ==
  /\ wsConfig.maxReconnectDelay = 30000
  /\ metrics.reconnectAttempts = 5
  /\ session.reconnectTimer # NoTimer
  /\ 2 * session.reconnectTimer[1].delay.num
       = 10125 * session.reconnectTimer[1].delay.den

\* C14: once maxReconnectAttempts reconnect attempts in a row have failed the
\* session goes to Error and raises ReconnectExhausted exactly once; no
\* automatic attempt follows (no reconnect timer is pending, and only the
\* client's connect() leaves Error), and the attempts of one backoff
\* sequence never exceed maxReconnectAttempts.
C14_Step ==
  /\ metrics'.reconnectAttempts <= wsConfig.maxReconnectAttempts
  /\ session'.exhausted # session.exhausted
       => /\ session'.exhausted = session.exhausted + 1
          /\ metrics.reconnectAttempts = wsConfig.maxReconnectAttempts
          /\ connectionState = "connecting"
          /\ connectionState' = "error"
          /\ session'.reason = "ReconnectExhausted"
  /\ (session.reason = "ReconnectExhausted" /\ connectionState = "error")
       => /\ session.reconnectTimer = NoTimer
          /\ ~session.reconnecting
          /\ session'.exhausted = session.exhausted
          /\ connectionState' = "connecting" => connectCalls.addModule > 0

C14_ExhaustionTerminal == [][C14_Step]_vars

\* the attempts were exhausted and the session has stayed in Error since
C14_Witness ==
  /\ session.exhausted = 1
  /\ session.reason = "ReconnectExhausted"
  /\ connectionState = "error"
  /\ metrics.reconnectAttempts = wsConfig.maxReconnectAttempts

Counters == {"bytesSent", "bytesReceived", "messagesSent", "messagesReceived"}

\* C16: the byte and message counters never decrease while the session
\* lives and are not reset by an automatic reconnect; they go back to zero
\* only in an explicit disconnect(); reconnectAttempts only grows across a
\* backoff sequence.
C16_Step ==
  /\ \A c \in Counters :
       metrics'[c] < metrics[c]
         => /\ calls'.disconnect = calls.disconnect + 1
            /\ metrics'[c] = 0
  /\ (session.reconnecting /\ connectionState' = "connected")
       => \A c \in Counters : metrics'[c] = metrics[c]
  /\ (session.reconnecting /\ session'.reconnecting)
       => metrics'.reconnectAttempts >= metrics.reconnectAttempts

C16_MetricsMonotonic == [][C16_Step]_vars

\* the session is connected again after two retries, with what it counted
\* before the closure
C16_Witness ==
  /\ connectionState = "connected"
  /\ Len(session.backoffLog) = 2
  /\ emitted.connected = 2
  /\ metrics.messagesSent = 2
  /\ metrics.messagesReceived = 1
  /\ captured = 2
  /\ sendLog[2].id = 2

\* the argument and outcome of the updateConfig() call a step makes
lastUpdate(log) == log[Len(log)]

\* C17: updateConfig(updates) called while connected throws and leaves the
\* configuration getConfig() returns unchanged; called while not connected
\* it does not throw and getConfig() then returns every value of updates.
C17_Step ==
  Len(updateLog') = Len(updateLog) + 1
    => IF connectionState = "connected"
       THEN /\ lastUpdate(updateLog').threw
            /\ getConfig(State)' = getConfig(State)
       ELSE /\ ~lastUpdate(updateLog').threw
            /\ \A section \in DOMAIN lastUpdate(updateLog').updates :
                 \A k \in DOMAIN lastUpdate(updateLog').updates[section] :
                   getConfig(State)'[section][k]
                     = lastUpdate(updateLog').updates[section][k]

C17_UpdateConfigGuard == [][C17_Step]_vars

\* one update was refused while connected, one accepted after the
\* disconnect, and the configuration holds the accepted one only
C17_Witness ==
  /\ Len(updateLog) = 2
  /\ updateLog[1].threw
  /\ updateLog[1].updates = [websocket |-> [reconnect |-> TRUE, maxReconnectAttempts |-> 2]]
  /\ ~updateLog[2].threw
  /\ updateLog[2].updates = [audio |-> [targetChunks |-> 5]]
  /\ getConfig(State).audio.targetChunks = 5
  /\ ~getConfig(State).websocket.reconnect

\* a step in which initialize() of a connect() call fails: getUserMedia
\* rejects, or a later step fails with the collector never started
initFailing ==
  \/ /\ connectCalls'.getUserMedia = connectCalls.getUserMedia - 1
     /\ connectCalls'.addModule = connectCalls.addModule
  \/ /\ connectCalls'.addModule = connectCalls.addModule - 1
     /\ collector'.stream = NoId

\* C18: a failure during the connect sequence aborts the attempt and
\* reaches the caller. When audio initialisation fails, connect() rejects,
\* that call does not open the transport (state, timers, events and counters
\* of the session are as before) and does not mark the client initialized;
\* if it was the only connect() so far the client is left Disconnected.
\* When the transport fails to open, every connect() waiting for it rejects
\* and the state is Error.
C18_Step ==
  /\ initFailing
       => /\ connectCalls'.rejected = connectCalls.rejected + 1
          /\ connectCalls'.wsConnect = connectCalls.wsConnect
          /\ UNCHANGED <<connectionState, session, emitted, metrics, initialized>>
          /\ connectsStarted = 1
               => connectionState' = "disconnected" /\ ~initialized'
  /\ (connectionState = "connecting" /\ connectionState' = "error")
       => /\ connectCalls'.rejected = connectCalls.rejected + connectCalls.wsConnect
          /\ connectCalls'.wsConnect = 0

C18_ConnectAborts == [][C18_Step]_vars

\* the only connect() so far was rejected because no device was acquired
C18_Witness ==
  /\ connectsStarted = 1
  /\ connectCalls = [getUserMedia |-> 0, addModule |-> 0, wsConnect |-> 0,
                     rejected |-> 1]
  /\ mediaStream = NoId
  /\ connectionState = "disconnected"
  /\ emitted = [connected |-> 0, disconnected |-> 0, connection_error |-> 0]

\* the last turn-change received was to ai
turnIsAi ==
  /\ Len(pauseLog) > 0
  /\ pauseLog[Len(pauseLog)].seen = Len(reqAt)

\* C19: when playback reaches Completed while the last turn received is
\* still ai, completion does not request a resume and starts no resume
\* timer: the calls of resumeMicrophone, the pending timers and the resumes
\* executed are as before.
C19_Step ==
  (turnIsAi /\ playbackState # "completed" /\ playbackState' = "completed")
    => UNCHANGED <<reqAt, timers, micResumeTimeout, resumeLog, micPaused>>

C19_CompletionDoesNotResume == [][C19_Step]_vars

\* the buffering decision at nominal thresholds, for a pending sequence
decisionHolds(chunks, complete) ==
  \/ totalLengthOf(chunks) >= config.minBufferSize
  \/ Len(chunks) >= config.targetChunks
  \/ (complete /\ totalLengthOf(chunks) >= 1)

\* C20: onChunk always appends the chunk and adds its length to the byte
\* count. It starts a segment (of the whole pending sequence, the new chunk
\* last) if and only if the state is not Playing and, after the append,
\* pending bytes >= minBufferSize or pending chunks >= targetChunks or
\* streamComplete is set with at least one byte pending. While Playing it
\* starts nothing and schedules no retry.
C20_Step ==
  received' = received + 1
    => \E n \in ChunkSizes :
         LET pending == Append(audioBuffer, [id |-> received', byteLength |-> n])
             starts == /\ playbackState # "playing"
                       /\ decisionHolds(pending, isStreamingComplete)
         IN /\ totalLengthOf(pending) = audioBufferSize + n
            /\ IF starts
               THEN /\ sinkLog' = Append(sinkLog, lastSegment(sinkLog'))
                    /\ lastSegment(sinkLog').from = pending
                    /\ playbackState' = "playing"
                    /\ audioBuffer' = <<>>
                    /\ audioBufferSize' = 0
               ELSE /\ sinkLog' = sinkLog
                    /\ audioBuffer' = pending
                    /\ audioBufferSize' = audioBufferSize + n
                    /\ playbackState' = playbackState
            /\ playbackState = "playing"
                 => playbackRetryTimer' = playbackRetryTimer

C20_OnChunkDecision == [][C20_Step]_vars

\* the second chunk started a segment on the byte count, and the chunk that
\* arrived while it played is pending with no retry scheduled
C20_Witness ==
  /\ received = 3
  /\ Len(sinkLog) = 1
  /\ Len(sinkLog[1].from) = 2
  /\ totalLengthOf(sinkLog[1].from) = 40000
  /\ ~sinkLog[1].complete
  /\ playbackState = "playing"
  /\ Len(audioBuffer) = 1
  /\ audioBuffer[1].id = 3
  /\ playbackRetryTimer = NULL

\* the buffering decision with the thresholds lowered to 75 per cent
relaxedDecisionHolds(chunks, complete) ==
  \/ 4 * totalLengthOf(chunks) >= 3 * config.minBufferSize
  \/ 4 * Len(chunks) >= 3 * config.targetChunks
  \/ (complete /\ totalLengthOf(chunks) >= 1)

\* C21: when the sink reports that a segment finished, the buffering
\* decision runs again with the thresholds lowered to 75 per cent: pending
\* chunks that meet neither lowered threshold, with streamComplete not set,
\* stay buffered and nothing is handed to the sink.
C21_Step ==
  /\ \E n \in inSink : n \notin inSink'
  /\ connectionState' = connectionState
  /\ audioBuffer # <<>>
  /\ ~relaxedDecisionHolds(audioBuffer, isStreamingComplete)
  => /\ sinkLog' = sinkLog
     /\ audioBuffer' = audioBuffer

C21_FinishedSegmentDecides == [][C21_Step]_vars

\* C22: once markStreamComplete() has been called and every segment handed
\* to the sink has ended, playback reaches Completed with nothing pending,
\* whatever the order of chunk arrivals, retry-timer firings and segment
\* ends. Stated on the runs of one utterance at rest: audio was received,
\* streamComplete is set, no segment is in the sink and no retry is
\* scheduled, so nothing further will run.
C22_CompletesAtRest ==
  /\ received > 0
  /\ isStreamingComplete
  /\ inSink = {}
  /\ playbackRetryTimer # "pending"
  => /\ playbackState = "completed"
     /\ audioBuffer = <<>>

\* C23: a sink error does not stall playback. When a segment leaves the
\* sink, by ending or by an error, processing goes on: pending data that
\* the decision accepts is handed to the sink as the next segment, and with
\* nothing pending and streamComplete set the state becomes Completed.
C23_Step ==
  /\ \E n \in inSink : n \notin inSink'
  /\ connectionState' = connectionState
  => /\ (audioBuffer # <<>>
           /\ relaxedDecisionHolds(audioBuffer, isStreamingComplete))
          => /\ Len(sinkLog') = Len(sinkLog) + 1
             /\ lastSegment(sinkLog').from = audioBuffer
             /\ playbackState' = "playing"
     /\ (audioBuffer = <<>> /\ isStreamingComplete)
          => playbackState' = "completed"

C23_SinkErrorProceeds == [][C23_Step]_vars

\* C24: markStreamComplete() called while nothing is playing and at least
\* one byte is pending sets streamComplete, hands all pending chunks to the
\* sink as one segment whatever the thresholds, and cancels a pending retry
\* timer. Stated on what the call returns in every reachable state.
C24_MarkCompleteFlushes ==
  (playbackState # "playing" /\ audioBufferSize > 0)
  => LET r == setStreamComplete(State)
     IN /\ r.isStreamingComplete
        /\ r.sinkLog = Append(sinkLog, lastSegment(r.sinkLog))
        /\ lastSegment(r.sinkLog).from = audioBuffer
        /\ r.audioBuffer = <<>>
        /\ r.audioBufferSize = 0
        /\ r.playbackState = "playing"
        /\ r.playbackRetryTimer # "pending"

\* C25: markStreamComplete() called during a session while nothing is
\* playing and nothing is pending moves the playback state to Completed in
\* the call itself. Stated on what the call returns in every reachable
\* state.
C25_MarkCompleteCompletes ==
  (connectionState = "connected" /\ playbackState # "playing"
     /\ audioBuffer = <<>>)
  => setStreamComplete(State).playbackState = "completed"

\* C26: reset() of the playback buffer, called from any state, leaves the
\* pending sequence empty, the byte count 0, streamComplete false and the
\* state Idle, and cancels the retry timer: no retry callback scheduled
\* before the reset runs after it. reset() runs when a cleanup has closed
\* the audio context.
C26_Step ==
  cleanups' < cleanups
    => /\ audioBuffer' = <<>>
       /\ audioBufferSize' = 0
       /\ ~isStreamingComplete'
       /\ playbackState' = "idle"
       /\ playbackRetryTimer' # "pending"
       /\ retryTimers' = 0

C26_ResetClears == [][C26_Step]_vars

\* C27: the playback buffer is reset on every disconnect, not only on an
\* explicit disconnect(): once the connection is down (Disconnected or
\* Error) and no cleanup is still running, nothing is pending, no retry
\* timer is outstanding and the state is Idle, so nothing buffered before
\* the disconnect can be played in a later session.
C27_ResetOnEveryDisconnect ==
  (connectionState \in {"disconnected", "error"} /\ cleanups = 0)
  => /\ audioBuffer = <<>>
     /\ audioBufferSize = 0
     /\ retryTimers = 0
     /\ playbackState = "idle"

\* C28: at most one playback retry timer is outstanding, and it is the one
\* the playbackRetryTimer field holds: the decision schedules a retry only
\* when none is scheduled. Handing a segment to the sink cancels the
\* pending retry, so none is outstanding while a segment plays.
C28_OneRetryTimer ==
  /\ retryTimers <= 1
  /\ retryTimers = 1 <=> playbackRetryTimer = "pending"
  /\ playbackState = "playing" => retryTimers = 0

\* the first chunk scheduled a retry, the second found it scheduled, and
\* the third started the segment, which cancelled it
C28_Witness ==
  /\ Len(sinkLog) = 1
  /\ Len(sinkLog[1].from) = 3
  /\ playbackState = "playing"
  /\ playbackRetryTimer = NULL
  /\ retryTimers = 0

\* C29: the retry polling stays alive: whenever the state is not Playing,
\* at least one chunk is pending and the decision does not hold, a retry
\* timer is outstanding. This also holds for chunks that arrive after a
\* reset() that was called while a retry timer was pending. Stated for a
\* session that is connected with no cleanup running.
C29_PollingAlive ==
  (connectionState = "connected" /\ cleanups = 0
     /\ playbackState # "playing" /\ audioBuffer # <<>>
     /\ ~decisionHolds(audioBuffer, isStreamingComplete))
  => (playbackRetryTimer = "pending" /\ retryTimers > 0)

failsafeTimers == {t \in timers : t.kind = "failsafe"}

\* C30: the failsafe timer is started only by a resume request made while
\* no failsafe is running, so at most one failsafe timer is outstanding and
\* a later request neither restarts nor adds one.
C30_OneFailsafe == Cardinality(failsafeTimers) <= 1

\* disconnect() has returned: the transport is closed and cleanup() has run
\* to its end
tornDown ==
  /\ connectionState = "disconnected"
  /\ metrics.disconnectedAt # <<>>
  /\ ~initialized
  /\ cleanups = 0

\* C31: cleanup of the microphone gate cancels the debounced resume timer
\* and the failsafe timer: once cleanup has returned, no resume or failsafe
\* callback scheduled before it runs, however many resume requests were
\* made before.
C31_Step == tornDown => Len(resumeLog') = Len(resumeLog)

C31_NoCallbackAfterCleanup == [][C31_Step]_vars

\* C32: while Connected the heartbeat sends probes; an acknowledgement that
\* arrives in time leaves the state Connected and changes nothing else of
\* the connection; a probe that is not acknowledged within pongTimeout
\* makes the connection dead, and what follows is exactly what follows an
\* unexpected closure (a retry scheduled with the backoff delay while
\* attempts remain), the reason recorded apart.
C32_Step ==
  /\ session'.heartbeat # "off" => connectionState' = "connected"
  /\ session'.probes # session.probes
       => /\ session'.probes = session.probes + 1
          /\ connectionState = "connected"
          /\ connectionState' = "connected"
  /\ (session.heartbeat = "probing" /\ session'.heartbeat = "waiting")
       => /\ connectionState' = "connected"
          /\ metrics' = metrics
          /\ session'.reconnectTimer = NoTimer
  /\ (connectionState = "connected" /\ session'.reason = "HeartbeatLost")
       => LET closed == transportLost(State, "TransportClosed")
          IN /\ session.heartbeat = "probing"
             /\ connectionState' = closed.connectionState
             /\ metrics' = closed.metrics
             /\ emitted' = closed.emitted
             /\ session' = [closed.session EXCEPT !.reason = "HeartbeatLost"]

C33_PlayingHasSegment == playbackState = "playing" => inSink # {}

\* C34: a pause is not undone by an older resume request: a resume that
\* runs, from the debounce timer or from the failsafe, belongs to a request
\* made after every pause handled so far.
C34_Step ==
  Len(resumeLog') > Len(resumeLog)
    => \A i \in 1..Len(pauseLog) :
         pauseLog[i].seen < resumeLog'[Len(resumeLog')].req

C34_PauseNotUndone == [][C34_Step]_vars

\* the chunks of the segments handed to the sink, in hand-over order
RECURSIVE handedOver(_)
handedOver(log) ==
  IF log = <<>> THEN <<>>
  ELSE handedOver(SubSeq(log, 1, Len(log) - 1)) \o log[Len(log)].from

\* C35: no chunk is lost or duplicated between resets. The chunks handed to
\* the sink so far followed by the pending chunks grow by exactly the chunk
\* that arrives, at its end, and change in no other step, except that a
\* reset drops the chunks that were pending.
C35_Step ==
  LET before == handedOver(sinkLog) \o audioBuffer
      after == handedOver(sinkLog') \o audioBuffer'
  IN IF received' = received + 1
     THEN /\ after = Append(before, after[Len(after)])
          /\ after[Len(after)].id = received'
     ELSE \/ after = before
          \/ /\ \/ cleanups' < cleanups
                \/ connectionState = "connected" /\ connectionState' = "disconnected"
             /\ after = handedOver(sinkLog)

C35_NoChunkLost == [][C35_Step]_vars

\* three chunks were received and all three were handed to the sink, in two
\* segments
C35_Witness ==
  /\ received = 3
  /\ Len(sinkLog) = 2
  /\ Len(handedOver(sinkLog)) = 3
  /\ \A i \in 1..3 : handedOver(sinkLog)[i].id = i
  /\ audioBuffer = <<>>

\* C36: at most one segment is in the sink at any time.
C36_OneSegmentInSink == Cardinality(inSink) <= 1

\* C37: a stale sink callback cannot act after teardown. A segment that is
\* in the sink but is no longer the current element was orphaned by a
\* reset(); when it leaves the sink, no segment is handed over and the
\* playback state does not change, whatever was buffered since the reset.
C37_Step ==
  (\E n \in inSink : n \notin inSink' /\ n # currentAudioElement)
    => /\ sinkLog' = sinkLog
       /\ playbackState' = playbackState

C37_StaleCallbackInert == [][C37_Step]_vars

\* C38: whenever connect() rejects, the client afterwards is neither
\* initialized nor connected and holds no capture resources: no live
\* microphone stream and no open audio context. Stated for the only
\* connect() made so far.
C38_Step ==
  (connectsStarted = 1 /\ connectCalls'.rejected > connectCalls.rejected)
    => /\ ~initialized'
       /\ connectionState' # "connected"
       /\ liveStreams' = {}
       /\ openContexts' = {}

C38_RejectedConnectLeavesNothing == [][C38_Step]_vars

\* C39: overlapping connect() calls do not initialise twice: audio capture
\* is initialised at most once for the session, so at most one microphone
\* stream is live and at most one audio context is open.
C39_SingleInitialisation ==
  /\ Cardinality(liveStreams) <= 1
  /\ Cardinality(openContexts) <= 1

\* C40: the running byte count always equals the pending data:
\* audioBufferSize is the sum of the byte lengths of the pending chunks, and
\* it is 0 exactly when the pending chunks hold no bytes.
C40_ByteCountMatches ==
  /\ audioBufferSize = totalLengthOf(audioBuffer)
  /\ audioBufferSize = 0 <=> (\A i \in 1..Len(audioBuffer) : audioBuffer[i].byteLength = 0)

\* two chunks of different lengths are pending and counted
C40_Witness ==
  /\ Len(audioBuffer) = 2
  /\ audioBuffer[1].byteLength # audioBuffer[2].byteLength
  /\ audioBufferSize = 30000
  /\ playbackState = "idle"

====
